---- MODULE Spec2Model ----
(***************************************************************************)
(* A model of lib/GithubUtils.js: the version comparator                   *)
(* (generateVersionComparisonURL), the checklist body codec                *)
(* (getStagingDeployCashData / generateStagingDeployCashBody), the URL     *)
(* identifier parsers and the two gateway-facing operations                *)
(* (getStagingDeployCash, createNewStagingDeployCash).                     *)
(*                                                                         *)
(* Strings are modelled by their structure.  A tag name is a record (an    *)
(* optional "v", three numeric components, an optional numeric build       *)
(* suffix) or a name that is no version at all.  A URL is a base and a     *)
(* sequence of path segments.  An issue body is a sequence of CRLF         *)
(* terminated lines.  The regular expressions of the source are            *)
(* translated to operators over these structures.                          *)
(***************************************************************************)
EXTENDS Integers, Sequences, FiniteSets, TLC

VARIABLES
    op,           \* the public operation in flight
    pc,           \* its position: which callback runs next
    args,         \* the arguments it was called with
    listTags,     \* the gateway's answer to octokit.repos.listTags
    listForRepo,  \* the gateway's answer to octokit.issues.listForRepo
    created,      \* the bodies octokit.issues.create was called with
    warnings,     \* the errors handed to console.warn
    decoded,      \* the issues getStagingDeployCashData was called with
    inner,        \* the promise of the nested generateVersionComparisonURL
    thenPromise,  \* that promise after .then(comparisonURL => ...)
    bodyPromise,  \* and after .catch(err => console.warn(...))
    result        \* the promise (or value) the operation returned

vars == <<op, pc, args, listTags, listForRepo, created, warnings, decoded,
          inner, thenPromise, bodyPromise, result>>

(***************************************************************************)
(* Bounds and input universes                                              *)
(***************************************************************************)
MaxTags == 2          \* longest tag listing the gateway returns

Majors == {1, 2}
Minors == {0, 1}
Patches == {0, 1}
Prereleases == {<<>>, <<0>>, <<1>>}   \* no build suffix, "-0", "-1"

Levels == {"MAJOR", "MINOR", "PATCH", "BUILD"}

(***************************************************************************)
(* Tag names                                                               *)
(***************************************************************************)
\* The text [v]major.minor.patch[-build].
TagName(v, major, minor, patch, pre) ==
    [isVersion |-> TRUE, v |-> v, major |-> major, minor |-> minor,
     patch |-> patch, pre |-> pre]

\* A name such as "latest": no version in it.
NotAVersion ==
    [isVersion |-> FALSE, v |-> FALSE, major |-> 0, minor |-> 0,
     patch |-> 0, pre |-> <<>>]

PlainTags ==
    {TagName(FALSE, M, m, p, b) :
        M \in Majors, m \in Minors, p \in Patches, b \in Prereleases}

\* Names spelled with the leading "v" that semver accepts and drops.
PrefixedTags == {TagName(TRUE, 2, 1, 1, b) : b \in Prereleases}

RepoTagNames == PlainTags \cup PrefixedTags \cup {NotAVersion}

\* The tags the operations are asked about: the release being cut.
AnchorTags == {t \in PlainTags : t.major = 2} \cup {NotAVersion}

\* The sequences over S of length at most n.
SeqsUpTo(S, n) == UNION {[1..k -> S] : k \in 0..n}

IsInjective(s) == \A i, j \in 1..Len(s) : s[i] = s[j] => i = j

\* A repository's tag names are unique.
TagListings == {s \in SeqsUpTo(RepoTagNames, MaxTags) : IsInjective(s)}

(***************************************************************************)
(* semver                                                                  *)
(***************************************************************************)
Null == [isNull |-> TRUE]

\* semver/functions/parse: the SemVer of a name, null when it is none.
\* SemVer.version is the normalised text: the leading "v" is dropped.
semverParse(name) ==
    IF name.isVersion
    THEN [isNull |-> FALSE, major |-> name.major, minor |-> name.minor,
          patch |-> name.patch, prerelease |-> name.pre,
          version |-> TagName(FALSE, name.major, name.minor, name.patch, name.pre)]
    ELSE Null

Sign(a, b) == IF a < b THEN 0 - 1 ELSE IF a > b THEN 1 ELSE 0

\* SemVer.compareMain
compareMain(a, b) ==
    IF Sign(a.major, b.major) # 0 THEN Sign(a.major, b.major)
    ELSE IF Sign(a.minor, b.minor) # 0 THEN Sign(a.minor, b.minor)
    ELSE Sign(a.patch, b.patch)

\* SemVer.comparePre: a version with a prerelease precedes the same version
\* without one; numeric identifiers compare as numbers.
comparePre(a, b) ==
    IF a.prerelease # <<>> /\ b.prerelease = <<>> THEN 0 - 1
    ELSE IF a.prerelease = <<>> /\ b.prerelease # <<>> THEN 1
    ELSE IF a.prerelease = <<>> /\ b.prerelease = <<>> THEN 0
    ELSE Sign(a.prerelease[1], b.prerelease[1])

\* SemVer.compare
semverCompare(a, b) ==
    IF compareMain(a, b) # 0 THEN compareMain(a, b) ELSE comparePre(a, b)

\* A parsed comparator: an operator and the version it compares with.
Comparator(operator, major, minor, patch, pre) ==
    [isValid |-> TRUE, operator |-> operator,
     semver |-> [major |-> major, minor |-> minor, patch |-> patch,
                 prerelease |-> pre]]

\* The range text "<null" and its like: Range's constructor throws.
InvalidRange == [isValid |-> FALSE]

\* Range's parse under includePrerelease of "<M.x.x" and "<M.m.x": the x's
\* become 0 and the prerelease "-0", the lowest there is.
XRangeBelow(major, minor) == Comparator("<", major, minor, 0, <<0>>)

\* semver/functions/satisfies with {includePrerelease: true}: false for a
\* name that is no version and for a range that does not parse; otherwise
\* the comparator alone decides (no prerelease exclusion).
semverSatisfies(name, range) ==
    LET version == semverParse(name)
    IN  /\ range.isValid
        /\ ~version.isNull
        /\ IF range.operator = "<"
           THEN semverCompare(version, range.semver) < 0
           ELSE semverCompare(version, range.semver) <= 0

(***************************************************************************)
(* Promises                                                                *)
(***************************************************************************)
NoValue == [kind |-> "none"]
Pending == [state |-> "pending", value |-> NoValue, calls |-> 0]
\* calls: how often resolve or reject was invoked on the promise.
Resolved(value) == [state |-> "resolved", value |-> value, calls |-> 1]
Rejected(error) == [state |-> "rejected", value |-> [kind |-> "error", name |-> error], calls |-> 1]

(***************************************************************************)
(* generateVersionComparisonURL                                            *)
(***************************************************************************)
\* getComparisonURL: EXPENSIFY_CASH_URL/compare/<previousTag>...<currentTag>.
\* The current tag is interpolated from the SemVer object, whose text is
\* its normalised version.
getComparisonURL(previousTag, currentTag) ==
    [kind |-> "compareURL", previousTag |-> previousTag, currentTag |-> currentTag.version]

\* LevelRange with the PATCH comparison written "<=": the anchor itself passes.
LevelRangeInclusive(tagSemver, semverLevel) ==
    CASE semverLevel = "MAJOR" -> XRangeBelow(tagSemver.major, 0)
      [] semverLevel = "MINOR" -> XRangeBelow(tagSemver.major, tagSemver.minor)
      [] semverLevel = "PATCH" ->
            Comparator("<=", tagSemver.major, tagSemver.minor, tagSemver.patch,
                       tagSemver.prerelease)
      [] semverLevel = "BUILD" ->
            Comparator("<=", tagSemver.major, tagSemver.minor, tagSemver.patch, <<>>)

\* The range each level hands to semverSatisfies.
LevelRange(tagSemver, semverLevel) ==
    CASE semverLevel = "MAJOR" -> XRangeBelow(tagSemver.major, 0)
      [] semverLevel = "MINOR" -> XRangeBelow(tagSemver.major, tagSemver.minor)
      [] semverLevel = "PATCH" ->
            Comparator("<", tagSemver.major, tagSemver.minor, tagSemver.patch,
                       tagSemver.prerelease)
      [] semverLevel = "BUILD" ->
            Comparator("<=", tagSemver.major, tagSemver.minor, tagSemver.patch, <<>>)

\* The callback handed to some(), for one listed tag: "true" after calling
\* resolve, "false", or "throw" for the TypeError of reading a property of
\* a null tagSemver.  With a null tagSemver the PATCH range is the text
\* "<null", which semverSatisfies answers with false.
SomeCallback(repoTag, tagSemver, semverLevel) ==
    IF tagSemver.isNull
    THEN IF semverLevel = "PATCH" THEN "false" ELSE "throw"
    ELSE IF /\ semverLevel = "BUILD" => repoTag # tagSemver.version
            /\ semverSatisfies(repoTag, LevelRange(tagSemver, semverLevel))
         THEN "true"
         ELSE "false"

\* A scan that keeps going after a match and so ends on the last one.
RECURSIVE SomeKeepsLast(_, _, _, _)
SomeKeepsLast(data, i, tagSemver, semverLevel) ==
    IF i > Len(data) THEN [threw |-> FALSE, index |-> 0]
    ELSE LET r == SomeCallback(data[i], tagSemver, semverLevel)
             rest == SomeKeepsLast(data, i + 1, tagSemver, semverLevel)
         IN  IF r = "throw" THEN [threw |-> TRUE, index |-> i]
             ELSE IF r = "true" /\ rest.index = 0 THEN [threw |-> FALSE, index |-> i]
             ELSE rest

\* Array.prototype.some from index i on: the index of the first tag whose
\* callback returned true (0 when there is none), or a throw.
RECURSIVE Some(_, _, _, _)
Some(data, i, tagSemver, semverLevel) ==
    IF i > Len(data) THEN [threw |-> FALSE, index |-> 0]
    ELSE LET r == SomeCallback(data[i], tagSemver, semverLevel)
         IN  IF r = "throw" THEN [threw |-> TRUE, index |-> i]
             ELSE IF r = "true" THEN [threw |-> FALSE, index |-> i]
             ELSE Some(data, i + 1, tagSemver, semverLevel)

\* The promise once the gateway has answered and the then/catch callbacks
\* have run: rejected with the gateway's error, rejected with the TypeError
\* thrown in the callback, resolved by the callback, or still pending when
\* some() returned false (neither resolve nor reject is ever called).
ComparisonPromise(response, tag, semverLevel) ==
    IF ~response.ok THEN Rejected("listTagsError")
    ELSE LET tagSemver == semverParse(tag)
             scan == Some(response.data, 1, tagSemver, semverLevel)
         IN  IF scan.threw THEN Rejected("TypeError")
             ELSE IF scan.index > 0
                  THEN Resolved(getComparisonURL(response.data[scan.index], tagSemver))
                  ELSE Pending

\* What the gateway answered: nothing yet, a listing, or an error.
Unanswered == [answered |-> FALSE, ok |-> FALSE, data |-> <<>>]
OkResponse(data) == [answered |-> TRUE, ok |-> TRUE, data |-> data]
ErrResponse == [answered |-> TRUE, ok |-> FALSE, data |-> <<>>]

InitCmp ==
    /\ op = "generateVersionComparisonURL"
    /\ pc = "listTags"
    /\ args \in [tag : AnchorTags, semverLevel : Levels]
    /\ listTags = Unanswered
    /\ listForRepo = Unanswered
    /\ created = <<>>
    /\ warnings = <<>>
    /\ decoded = <<>>
    /\ inner = Pending
    /\ thenPromise = Pending
    /\ bodyPromise = Pending
    /\ result = Pending

\* octokit.repos.listTags resolves: the then callback runs some().
CmpListTagsResolves ==
    /\ op = "generateVersionComparisonURL" /\ pc = "listTags"
    /\ \E data \in TagListings :
          /\ listTags' = OkResponse(data)
          /\ result' = ComparisonPromise(OkResponse(data), args.tag, args.semverLevel)
    /\ pc' = "done"
    /\ UNCHANGED <<op, args, listForRepo, created, warnings, decoded, inner, thenPromise, bodyPromise>>

\* octokit.repos.listTags rejects: the catch callback rejects with its error.
CmpListTagsRejects ==
    /\ op = "generateVersionComparisonURL" /\ pc = "listTags"
    /\ listTags' = ErrResponse
    /\ result' = ComparisonPromise(ErrResponse, args.tag, args.semverLevel)
    /\ pc' = "done"
    /\ UNCHANGED <<op, args, listForRepo, created, warnings, decoded, inner, thenPromise, bodyPromise>>

NextCmp == CmpListTagsResolves \/ CmpListTagsRejects

SpecCmp == InitCmp /\ [][NextCmp]_vars

(***************************************************************************)
(* Claims about generateVersionComparisonURL                               *)
(***************************************************************************)
CmpDone == op = "generateVersionComparisonURL" /\ pc = "done"

\* Listed tag i passes the range test of the requested level.
Satisfies(i) ==
    /\ ~semverParse(args.tag).isNull
    /\ SomeCallback(listTags.data[i], semverParse(args.tag), args.semverLevel) = "true"

NoTagSatisfies == \A i \in 1..Len(listTags.data) : ~Satisfies(i)

\* C1: once the gateway has answered and the callbacks have run, the
\* operation has completed with exactly one outcome, and with a failure when
\* no listed tag satisfies the level's predicate (an empty listing included).
C1_CompletesWithOneOutcome ==
    CmpDone =>
        /\ result.state \in {"resolved", "rejected"}
        /\ result.calls = 1
        /\ (listTags.ok /\ NoTagSatisfies) => result.state = "rejected"

\* C2: when some listed tag satisfies the level's predicate, the operation
\* resolves, once, with the link from the first such tag in listing order
\* to the anchor; a later satisfying tag is never the one selected.
C2_FirstSatisfyingTagSelected ==
    (CmpDone /\ listTags.ok) =>
        \A i \in 1..Len(listTags.data) :
            (Satisfies(i) /\ \A j \in 1..(i - 1) : ~Satisfies(j)) =>
                /\ result.state = "resolved"
                /\ result.calls = 1
                /\ result.value.kind = "compareURL"
                /\ result.value.previousTag = listTags.data[i]
                /\ result.value.currentTag = args.tag

\* Two listed tags satisfy the predicate, the second is the higher version,
\* and the first was selected.
C2_Witness ==
    /\ CmpDone /\ listTags.ok /\ Len(listTags.data) = 2
    /\ Satisfies(1) /\ Satisfies(2)
    /\ semverCompare(semverParse(listTags.data[1]), semverParse(listTags.data[2])) < 0
    /\ result.state = "resolved"
    /\ result.value.previousTag = listTags.data[1]

CmpSelected == CmpDone /\ result.state = "resolved"
SelectedTag == semverParse(result.value.previousTag)
AnchorSemver == semverParse(args.tag)

BuildNumberBelow(a, b) ==
    \/ a.prerelease # <<>> /\ b.prerelease = <<>>
    \/ a.prerelease # <<>> /\ b.prerelease # <<>> /\ a.prerelease[1] < b.prerelease[1]

SameCore(a, b) == a.major = b.major /\ a.minor = b.minor /\ a.patch = b.patch

CoreBelow(a, b) ==
    \/ a.major < b.major
    \/ a.major = b.major /\ a.minor < b.minor
    \/ a.major = b.major /\ a.minor = b.minor /\ a.patch < b.patch

\* C9 as stated: the selected tag agrees with the anchor on every component
\* above the requested level and is lower at that level.
C9_AgreesAboveLevel ==
    CmpSelected =>
        /\ ~SelectedTag.isNull
        /\ args.semverLevel = "MAJOR" => SelectedTag.major < AnchorSemver.major
        /\ args.semverLevel = "MINOR" =>
              /\ SelectedTag.major = AnchorSemver.major
              /\ SelectedTag.minor < AnchorSemver.minor
        /\ args.semverLevel = "PATCH" =>
              /\ SelectedTag.major = AnchorSemver.major
              /\ SelectedTag.minor = AnchorSemver.minor
              /\ SelectedTag.patch < AnchorSemver.patch
        /\ args.semverLevel = "BUILD" =>
              /\ SameCore(SelectedTag, AnchorSemver)
              /\ BuildNumberBelow(SelectedTag, AnchorSemver)

\* C9 amended: the selected tag is a version that precedes the anchor in
\* semver order at the requested level, whatever its higher components:
\* MAJOR a lower major; MINOR a lower (major, minor); PATCH a lower
\* major.minor.patch, or the same one with an earlier build; BUILD a
\* major.minor.patch not above the anchor's (any build of it), and a name
\* other than the anchor's version text.
C9_PrecedesAnchorAtLevel ==
    CmpSelected =>
        /\ ~SelectedTag.isNull
        /\ args.semverLevel = "MAJOR" => SelectedTag.major < AnchorSemver.major
        /\ args.semverLevel = "MINOR" =>
              \/ SelectedTag.major < AnchorSemver.major
              \/ /\ SelectedTag.major = AnchorSemver.major
                 /\ SelectedTag.minor < AnchorSemver.minor
        /\ args.semverLevel = "PATCH" =>
              \/ CoreBelow(SelectedTag, AnchorSemver)
              \/ /\ SameCore(SelectedTag, AnchorSemver)
                 /\ BuildNumberBelow(SelectedTag, AnchorSemver)
        /\ args.semverLevel = "BUILD" =>
              /\ CoreBelow(SelectedTag, AnchorSemver) \/ SameCore(SelectedTag, AnchorSemver)
              /\ result.value.previousTag # AnchorSemver.version

\* At level BUILD a later build of the anchor's own major.minor.patch was
\* selected, and at level MINOR a tag of a lower major would be.
C9_Witness ==
    /\ CmpSelected
    /\ args.semverLevel = "BUILD"
    /\ SameCore(SelectedTag, AnchorSemver)
    /\ BuildNumberBelow(AnchorSemver, SelectedTag)

(***************************************************************************)
(* URLs and the URL identifier parsers                                     *)
(***************************************************************************)
MaxSegments == 6      \* longest URL path, in segments
Numbers == {1, 2}     \* the issue and pull request numbers

\* A path segment: a word without a slash, or a run of digits.
Word(text) == [isNumber |-> FALSE, text |-> text, number |-> 0]
Digits(n) == [isNumber |-> TRUE, text |-> "", number |-> n]

Segments == {Word("name"), Word("pull"), Word("issues")} \cup {Digits(n) : n \in Numbers}

\* base: "github" stands for http(s)://github.com and
\* http(s)://api.github.com, "other" for any other origin.
Bases == {"github", "other"}

URLText(base, segs) == [base |-> base, segs |-> segs]

\* GITHUB_BASE_URL_REGEX
GITHUB_BASE_URL_REGEX(URL) == URL.base = "github"

\* <base>/.*/.*/<word>/([0-9]+).* with word among `words`: segment k is the
\* word, the next one starts with digits, and two slashes precede its own,
\* the first of them right after the base.
RegexMatchesAt(URL, words, k) ==
    /\ GITHUB_BASE_URL_REGEX(URL)
    /\ k >= 3 /\ k + 1 <= Len(URL.segs)
    /\ ~URL.segs[k].isNumber /\ URL.segs[k].text \in words
    /\ URL.segs[k + 1].isNumber

\* String.prototype.match: both .* are greedy, so of the places the
\* pattern fits the rightmost is taken; k counts down from the end.  The
\* result is null or the array [whole match, group 1].
RECURSIVE RegexMatch(_, _, _)
RegexMatch(URL, words, k) ==
    IF k < 1 THEN [isNull |-> TRUE, length |-> 0, group1 |-> 0]
    ELSE IF RegexMatchesAt(URL, words, k)
         THEN [isNull |-> FALSE, length |-> 2, group1 |-> URL.segs[k + 1].number]
         ELSE RegexMatch(URL, words, k - 1)

PULL_REQUEST_REGEX(URL) == RegexMatch(URL, {"pull"}, Len(URL.segs))
ISSUE_REGEX(URL) == RegexMatch(URL, {"issues"}, Len(URL.segs))

\* The alternation written without "issues".
IssueOrPullRequestRegexPullOnly(URL) == RegexMatch(URL, {"pull"}, Len(URL.segs))

ISSUE_OR_PULL_REQUEST_REGEX(URL) == RegexMatch(URL, {"pull", "issues"}, Len(URL.segs))

Returned(n) == [threw |-> FALSE, number |-> n]
Threw == [threw |-> TRUE, number |-> 0]
NotCalled == [threw |-> FALSE, number |-> 0 - 1]

NumberOrThrow(matches) ==
    IF matches.isNull \/ matches.length # 2 THEN Threw ELSE Returned(matches.group1)

getPullRequestNumberFromURL(URL) == NumberOrThrow(PULL_REQUEST_REGEX(URL))
getIssueNumberFromURL(URL) == NumberOrThrow(ISSUE_REGEX(URL))
getIssueOrPullRequestNumberFromURL(URL) == NumberOrThrow(ISSUE_OR_PULL_REQUEST_REGEX(URL))

InitUrl ==
    /\ op = "parseURL"
    /\ pc = "pullRequest"
    /\ \E b \in Bases, p \in SeqsUpTo(Segments, MaxSegments) : args = [URL |-> URLText(b, p)]
    /\ listTags = Unanswered
    /\ listForRepo = Unanswered
    /\ created = <<>>
    /\ warnings = <<>>
    /\ decoded = <<>>
    /\ inner = Pending
    /\ thenPromise = Pending
    /\ bodyPromise = Pending
    /\ result = [pullRequest |-> NotCalled, issue |-> NotCalled, issueOrPullRequest |-> NotCalled]

CallGetPullRequestNumber ==
    /\ op = "parseURL" /\ pc = "pullRequest"
    /\ result' = [result EXCEPT !.pullRequest = getPullRequestNumberFromURL(args.URL)]
    /\ pc' = "issue"
    /\ UNCHANGED <<op, args, listTags, listForRepo, created, warnings, decoded, inner, thenPromise, bodyPromise>>

CallGetIssueNumber ==
    /\ op = "parseURL" /\ pc = "issue"
    /\ result' = [result EXCEPT !.issue = getIssueNumberFromURL(args.URL)]
    /\ pc' = "issueOrPullRequest"
    /\ UNCHANGED <<op, args, listTags, listForRepo, created, warnings, decoded, inner, thenPromise, bodyPromise>>

CallGetIssueOrPullRequestNumber ==
    /\ op = "parseURL" /\ pc = "issueOrPullRequest"
    /\ result' = [result EXCEPT !.issueOrPullRequest = getIssueOrPullRequestNumberFromURL(args.URL)]
    /\ pc' = "done"
    /\ UNCHANGED <<op, args, listTags, listForRepo, created, warnings, decoded, inner, thenPromise, bodyPromise>>

NextUrl == CallGetPullRequestNumber \/ CallGetIssueNumber \/ CallGetIssueOrPullRequestNumber

SpecUrl == InitUrl /\ [][NextUrl]_vars

(***************************************************************************)
(* Claims about the URL identifier parsers                                 *)
(***************************************************************************)
UrlDone == op = "parseURL" /\ pc = "done"

\* The URL reads <github base>/<x>/<y>/<word>/<n>...: the word sits at
\* segment k, at least two segments in, with the number n right after it.
HasShapeAt(word, n, k) ==
    /\ args.URL.base = "github"
    /\ k >= 3 /\ k < Len(args.URL.segs)
    /\ args.URL.segs[k] = Word(word)
    /\ args.URL.segs[k + 1] = Digits(n)

HasShape(word, n) == \E k \in 1..Len(args.URL.segs) : HasShapeAt(word, n, k)
IsShaped(word) == \E n \in Numbers : HasShape(word, n)

\* n follows the last <word> of the URL that a number follows.
IsLastNumber(words, n) ==
    \E k \in 1..Len(args.URL.segs) :
        /\ \E w \in words : HasShapeAt(w, n, k)
        /\ \A j \in (k + 1)..Len(args.URL.segs), w \in words, m \in Numbers :
              ~HasShapeAt(w, m, j)

\* C8 as stated: a pull-request-shaped URL, n being the number after its
\* (last) /pull/, gives n from the pull request parser and from the
\* issue-or-pull-request parser and makes the issue parser throw; an
\* issue-shaped URL likewise with the roles swapped; a URL of neither shape
\* makes all three throw.
C8_ParsersBySingleShape ==
    UrlDone =>
        /\ \A n \in Numbers :
              IsLastNumber({"pull"}, n) =>
                  /\ result.pullRequest = Returned(n)
                  /\ result.issueOrPullRequest = Returned(n)
                  /\ result.issue = Threw
        /\ \A n \in Numbers :
              IsLastNumber({"issues"}, n) =>
                  /\ result.issue = Returned(n)
                  /\ result.issueOrPullRequest = Returned(n)
                  /\ result.pullRequest = Threw
        /\ (~IsShaped("pull") /\ ~IsShaped("issues")) =>
              /\ result.pullRequest = Threw
              /\ result.issue = Threw
              /\ result.issueOrPullRequest = Threw

\* C8 amended: the patterns are not anchored at the end and take the last
\* place they fit.  A URL with the pull request shape and not the issue
\* shape gives, from the pull request parser and from the
\* issue-or-pull-request parser alike, the number after its last /pull/, and
\* makes the issue parser throw; a URL with the issue shape and not the pull
\* request shape likewise with the roles swapped; a URL with both shapes
\* gives each single-shape parser the number after the last occurrence of
\* its own word and the issue-or-pull-request parser the number after the
\* last occurrence of either; a URL of neither shape makes all three throw.
C8_ParsersByLastMatch ==
    UrlDone =>
        /\ IsShaped("pull") =>
              /\ ~result.pullRequest.threw
              /\ IsLastNumber({"pull"}, result.pullRequest.number)
        /\ IsShaped("issues") =>
              /\ ~result.issue.threw
              /\ IsLastNumber({"issues"}, result.issue.number)
        /\ (IsShaped("pull") \/ IsShaped("issues")) =>
              /\ ~result.issueOrPullRequest.threw
              /\ IsLastNumber({"pull", "issues"}, result.issueOrPullRequest.number)
        /\ (IsShaped("pull") /\ ~IsShaped("issues")) =>
              /\ result.issueOrPullRequest = result.pullRequest
              /\ result.issue = Threw
        /\ (IsShaped("issues") /\ ~IsShaped("pull")) =>
              /\ result.issueOrPullRequest = result.issue
              /\ result.pullRequest = Threw
        /\ ~IsShaped("pull") => result.pullRequest = Threw
        /\ ~IsShaped("issues") => result.issue = Threw
        /\ (~IsShaped("pull") /\ ~IsShaped("issues")) => result.issueOrPullRequest = Threw

\* A URL with both shapes has been parsed: the pull request parser and the
\* issue parser each returned a number, and they differ.
C8_Witness ==
    /\ UrlDone
    /\ IsShaped("pull") /\ IsShaped("issues")
    /\ ~result.pullRequest.threw /\ ~result.issue.threw
    /\ result.pullRequest.number # result.issue.number
    /\ result.issueOrPullRequest = result.issue

(***************************************************************************)
(* Issue bodies                                                            *)
(***************************************************************************)
\* "**Release Version:** <tag>"
ReleaseLine(tag) == [kind |-> "release", tag |-> tag]
\* "**Compare Changes:** <comparisonURL>"
CompareLine(comparisonURL) == [kind |-> "compare", comparisonURL |-> comparisonURL]
\* "**This release contains changes from the following pull requests:**"
PullRequestsHeader == [kind |-> "pullRequestsHeader"]
\* "**Deploy Blockers:**"
DeployBlockersHeader == [kind |-> "deployBlockersHeader"]
\* "- [ ] <URL>" or "- [x] <URL>"
ItemLine(checked, URL) == [kind |-> "item", checked |-> checked, URL |-> URL]
\* the empty line
BlankLine == [kind |-> "blank"]

\* A body: its lines, each ended by CRLF.  The value undefined is no body.
Body(lines) == [kind |-> "body", lines |-> lines]
UndefinedValue == [kind |-> "undefined"]

(***************************************************************************)
(* generateStagingDeployCashBody and createNewStagingDeployCash            *)
(***************************************************************************)
\* A unique that drops nothing.
uniqueKeepsAll(array) == array

\* _.unique: the first occurrence of each value, in order.
RECURSIVE unique(_)
unique(array) ==
    IF array = <<>> THEN <<>>
    ELSE LET front == unique(SubSeq(array, 1, Len(array) - 1))
             last == array[Len(array)]
         IN  IF \E i \in 1..Len(front) : front[i] = last THEN front ELSE Append(front, last)

\* The step of a stable sort: x goes after every element whose criterion
\* is not above its own.
RECURSIVE InsertByCriteria(_, _)
InsertByCriteria(sorted, x) ==
    IF sorted = <<>> THEN <<x>>
    ELSE IF sorted[Len(sorted)].criteria <= x.criteria THEN Append(sorted, x)
    ELSE Append(InsertByCriteria(SubSeq(sorted, 1, Len(sorted) - 1), x), sorted[Len(sorted)])

RECURSIVE SortByCriteria(_)
SortByCriteria(pairs) ==
    IF pairs = <<>> THEN <<>>
    ELSE InsertByCriteria(SortByCriteria(SubSeq(pairs, 1, Len(pairs) - 1)), pairs[Len(pairs)])

\* The iteratees of the two _.sortBy calls, applied to every value of a list.
PullRequestNumbers(list) == [i \in 1..Len(list) |-> getPullRequestNumberFromURL(list[i])]
IssueOrPullRequestNumbers(list) ==
    [i \in 1..Len(list) |-> getIssueOrPullRequestNumberFromURL(list[i])]

\* _.sortBy(list, iteratee), given what the iteratee computed for each value:
\* every value is paired with its criterion, the pairs are sorted ascending
\* and stably, and the values are plucked.
sortBy(list, computed) ==
    LET pairs == [i \in 1..Len(list) |-> [value |-> list[i], criteria |-> computed[i].number]]
        sorted == SortByCriteria(pairs)
    IN  [i \in 1..Len(sorted) |-> sorted[i].value]

\* The iteratee throws on one of the values.
IterateeThrows(computed) == \E i \in 1..Len(computed) : computed[i].threw

contains(list, value) == \E i \in 1..Len(list) : list[i] = value

ItemLines(sortedList, checkedList) ==
    [i \in 1..Len(sortedList) |-> ItemLine(contains(checkedList, sortedList[i]), sortedList[i])]

\* The then callback of generateStagingDeployCashBody: the promise it leaves
\* behind, rejected when a number parser threw, else resolved with the body.
ThenCallback(comparisonURL, a) ==
    LET uniquePRs == unique(a.PRList)
        uniqueBlockers == unique(a.deployBlockers)
    IN  IF \/ IterateeThrows(PullRequestNumbers(uniquePRs))
           \/ IterateeThrows(IssueOrPullRequestNumbers(uniqueBlockers))
        THEN Rejected("InvalidURL")
        ELSE LET sortedPRList == sortBy(uniquePRs, PullRequestNumbers(uniquePRs))
                 sortedDeployBlockers ==
                     sortBy(uniqueBlockers, IssueOrPullRequestNumbers(uniqueBlockers))
             IN  Resolved(Body(
                    <<ReleaseLine(a.tag), CompareLine(comparisonURL)>>
                    \o (IF a.PRList # <<>>
                        THEN <<PullRequestsHeader>> \o ItemLines(sortedPRList, a.verifiedPRList)
                        ELSE <<>>)
                    \o (IF a.deployBlockers # <<>>
                        THEN <<BlankLine, DeployBlockersHeader>>
                             \o ItemLines(sortedDeployBlockers, a.resolvedDeployBlockers)
                        ELSE <<>>)))

\* promise.then(callback): the callback runs on a resolved promise; a
\* rejection, or a promise that never settles, passes through.
Then(promise, a) ==
    IF promise.state = "resolved" THEN ThenCallback(promise.value, a) ELSE promise

\* A catch that hands the rejection on instead of swallowing it.
CatchRethrows(promise) == promise

\* promise.catch(err => console.warn(...)): a rejection becomes a promise
\* resolved with undefined, what console.warn returns.
Catch(promise) ==
    IF promise.state = "rejected" THEN Resolved(UndefinedValue) ELSE promise

\* The whole of generateStagingDeployCashBody, given the gateway's answer.
GeneratedBody(response, a) == Catch(Then(ComparisonPromise(response, a.tag, "BUILD"), a))

MaxPRs == 3           \* longest PRList handed to the encoder
MaxBlockers == 2      \* longest deployBlockers handed to the encoder

PullURL(n) == URLText("github", <<Word("name"), Word("name"), Word("pull"), Digits(n)>>)
IssueURL(n) == URLText("github", <<Word("name"), Word("name"), Word("issues"), Digits(n)>>)
\* A pull request of another forge.
OtherURL == URLText("other", <<Word("name"), Word("name"), Word("pull"), Digits(1)>>)

ChecklistURLs == {PullURL(1), PullURL(2), IssueURL(2), OtherURL}

\* The release the checklist is for, and the build before it.
ReleaseTag == TagName(FALSE, 2, 1, 1, <<1>>)
PreviousTag == TagName(FALSE, 2, 1, 1, <<0>>)

BodyTags == {ReleaseTag, NotAVersion}
BodyTagListings == {<<>>, <<PreviousTag>>, <<TagName(TRUE, 2, 1, 1, <<0>>)>>}

\* What is ticked: nothing, or one pull request and one blocker.
CheckedLists ==
    {[verifiedPRList |-> <<>>, resolvedDeployBlockers |-> <<>>],
     [verifiedPRList |-> <<PullURL(1)>>, resolvedDeployBlockers |-> <<IssueURL(2)>>]}

EncodeArgs(tag, PRList, deployBlockers, checked) ==
    [tag |-> tag, PRList |-> PRList, verifiedPRList |-> checked.verifiedPRList,
     deployBlockers |-> deployBlockers,
     resolvedDeployBlockers |-> checked.resolvedDeployBlockers]

NothingChecked == [verifiedPRList |-> <<>>, resolvedDeployBlockers |-> <<>>]

InitBody ==
    /\ \E t \in BodyTags, l \in SeqsUpTo(ChecklistURLs, MaxPRs) :
          \* createNewStagingDeployCash(title, tag, PRList) leaves the other
          \* three parameters of generateStagingDeployCashBody at their defaults.
          \/ /\ op = "createNewStagingDeployCash"
             /\ args = EncodeArgs(t, l, <<>>, NothingChecked)
          \/ /\ op = "generateStagingDeployCashBody"
             /\ \E d \in SeqsUpTo(ChecklistURLs, MaxBlockers), c \in CheckedLists :
                   args = EncodeArgs(t, l, d, c)
    /\ pc = "listTags"
    /\ listTags = Unanswered
    /\ listForRepo = Unanswered
    /\ created = <<>>
    /\ warnings = <<>>
    /\ decoded = <<>>
    /\ inner = Pending
    /\ thenPromise = Pending
    /\ bodyPromise = Pending
    /\ result = Pending

Encoding == op \in {"createNewStagingDeployCash", "generateStagingDeployCashBody"}

\* What runs once generateVersionComparisonURL's promise is what it is:
\* the then callback, the catch callback, or nothing at all.
AfterComparison(promise) ==
    CASE promise.state = "resolved" -> "then"
      [] promise.state = "rejected" -> "catch"
      [] promise.state = "pending" -> "done"

\* What follows the settling of generateStagingDeployCashBody's promise:
\* its own caller gets it; createNewStagingDeployCash goes on to
\* octokit.issues.create when it resolved.
BodySettles(promise) ==
    /\ bodyPromise' = promise
    /\ IF op = "generateStagingDeployCashBody" \/ promise.state # "resolved"
       THEN result' = promise /\ pc' = "done"
       ELSE result' = result /\ pc' = "create"

\* octokit.repos.listTags resolves inside generateVersionComparisonURL.
BodyListTagsResolves ==
    /\ Encoding /\ pc = "listTags"
    /\ \E data \in BodyTagListings :
          /\ listTags' = OkResponse(data)
          /\ inner' = ComparisonPromise(OkResponse(data), args.tag, "BUILD")
    /\ pc' = AfterComparison(inner')
    /\ thenPromise' = IF inner'.state = "rejected" THEN inner' ELSE thenPromise
    /\ UNCHANGED <<op, args, listForRepo, created, warnings, decoded, bodyPromise, result>>

\* octokit.repos.listTags rejects.
BodyListTagsRejects ==
    /\ Encoding /\ pc = "listTags"
    /\ listTags' = ErrResponse
    /\ inner' = ComparisonPromise(ErrResponse, args.tag, "BUILD")
    /\ pc' = AfterComparison(inner')
    /\ thenPromise' = IF inner'.state = "rejected" THEN inner' ELSE thenPromise
    /\ UNCHANGED <<op, args, listForRepo, created, warnings, decoded, bodyPromise, result>>

\* .then(comparisonURL => ...): the body is built, or a parser throws.
BodyThen ==
    /\ Encoding /\ pc = "then"
    /\ thenPromise' = Then(inner, args)
    /\ IF thenPromise'.state = "rejected"
       THEN pc' = "catch" /\ UNCHANGED <<bodyPromise, result>>
       ELSE BodySettles(Catch(thenPromise'))
    /\ UNCHANGED <<op, args, listTags, listForRepo, created, warnings, decoded, inner>>

\* .catch(err => console.warn('Error generating comparison URL, continuing...', err))
BodyCatch ==
    /\ Encoding /\ pc = "catch"
    /\ warnings' = Append(warnings, thenPromise.value.name)
    /\ BodySettles(Catch(thenPromise))
    /\ UNCHANGED <<op, args, listTags, listForRepo, created, decoded, inner, thenPromise>>

\* .then(issueBody => this.octokit.issues.create({..., body: issueBody}))
CreateIssue ==
    /\ op = "createNewStagingDeployCash" /\ pc = "create"
    /\ created' = Append(created, bodyPromise.value)
    /\ pc' = "creating"
    /\ UNCHANGED <<op, args, listTags, listForRepo, warnings, decoded, inner, thenPromise,
                   bodyPromise, result>>

\* octokit.issues.create resolves with the new issue.
CreateResolves ==
    /\ op = "createNewStagingDeployCash" /\ pc = "creating"
    /\ result' = Resolved([kind |-> "issue", body |-> created[Len(created)]])
    /\ pc' = "done"
    /\ UNCHANGED <<op, args, listTags, listForRepo, created, warnings, decoded, inner,
                   thenPromise, bodyPromise>>

\* octokit.issues.create rejects.
CreateRejects ==
    /\ op = "createNewStagingDeployCash" /\ pc = "creating"
    /\ result' = Rejected("createError")
    /\ pc' = "done"
    /\ UNCHANGED <<op, args, listTags, listForRepo, created, warnings, decoded, inner,
                   thenPromise, bodyPromise>>

NextBody ==
    \/ BodyListTagsResolves
    \/ BodyListTagsRejects
    \/ BodyThen
    \/ BodyCatch
    \/ CreateIssue
    \/ CreateResolves
    \/ CreateRejects

SpecBody == InitBody /\ [][NextBody]_vars

\* The URL reads <github base>/<x>/<y>/<word>/<digits>... for a word
\* among `words`.
HasURLShape(URL, words) ==
    /\ URL.base = "github"
    /\ \E k \in 3..(Len(URL.segs) - 1) :
          /\ \E w \in words : URL.segs[k] = Word(w)
          /\ URL.segs[k + 1].isNumber

(***************************************************************************)
(* Claims about the encoder                                                *)
(***************************************************************************)
IsHeader(line) == line.kind \in {"pullRequestsHeader", "deployBlockersHeader"}

\* Line i is a checklist line of the section that `header` opens: the
\* nearest header above it is that one.
InSection(lines, header, i) ==
    /\ lines[i].kind = "item"
    /\ \E h \in 1..(i - 1) :
          /\ lines[h] = header
          /\ \A k \in (h + 1)..(i - 1) : ~IsHeader(lines[k])

EmbeddedNumber(URL) == getIssueOrPullRequestNumberFromURL(URL).number

SectionSortedNoDuplicates(lines, header) ==
    \A i, j \in 1..Len(lines) :
        (i < j /\ InSection(lines, header, i) /\ InSection(lines, header, j)) =>
            /\ EmbeddedNumber(lines[i].URL) <= EmbeddedNumber(lines[j].URL)
            /\ lines[i].URL # lines[j].URL

BodyGenerated == Encoding /\ bodyPromise.state = "resolved" /\ bodyPromise.value.kind = "body"

\* C5: in a generated body the checklist lines of each section are in
\* ascending order of the number in their URL, and no URL is on two lines
\* of a section, whatever the order and the repetitions of the input.
C5_SectionsSortedNoDuplicates ==
    BodyGenerated =>
        /\ SectionSortedNoDuplicates(bodyPromise.value.lines, PullRequestsHeader)
        /\ SectionSortedNoDuplicates(bodyPromise.value.lines, DeployBlockersHeader)

HasRepeat(list) == \E i, j \in 1..Len(list) : i < j /\ list[i] = list[j]
HasDescent(list) ==
    \E i, j \in 1..Len(list) : i < j /\ EmbeddedNumber(list[i]) > EmbeddedNumber(list[j])

\* A body was generated from a PRList that repeats a URL and is out of
\* order, and from deployBlockers that are out of order.
C5_Witness ==
    /\ BodyGenerated
    /\ HasRepeat(args.PRList) /\ HasDescent(args.PRList)
    /\ HasDescent(args.deployBlockers)
    /\ \E i \in 1..Len(bodyPromise.value.lines) :
          InSection(bodyPromise.value.lines, DeployBlockersHeader, i)

\* An entry of PRList that is no pull request URL, or an entry of
\* deployBlockers that is neither an issue nor a pull request URL.
HasInvalidURL ==
    \/ \E i \in 1..Len(args.PRList) : ~HasURLShape(args.PRList[i], {"pull"})
    \/ \E i \in 1..Len(args.deployBlockers) :
          ~HasURLShape(args.deployBlockers[i], {"pull", "issues"})

\* C6: a URL of the wrong shape handed to the encoder surfaces to the
\* caller: the operation ends with an InvalidURL failure, returns no body
\* and does not call octokit.issues.create.  (The comparison link was
\* found: that failure is the one the design swallows.)
C6_InvalidURLSurfaces ==
    (Encoding /\ pc = "done" /\ inner.state = "resolved" /\ HasInvalidURL) =>
        /\ result = Rejected("InvalidURL")
        /\ created = <<>>

\* C10: when the tag listing fails, generateStagingDeployCashBody warns and
\* resolves with undefined, never rejects; createNewStagingDeployCash goes
\* on to call octokit.issues.create once, with the undefined body, and the
\* listing's error never reaches its caller.
C10_ListingFailureSwallowed ==
    (Encoding /\ listTags = ErrResponse) =>
        /\ inner = Rejected("listTagsError")
        /\ pc \in {"catch", "create", "creating", "done"}
        /\ pc = "catch" => (warnings = <<>> /\ bodyPromise = Pending /\ created = <<>>)
        /\ pc # "catch" =>
              /\ warnings = <<"listTagsError">>
              /\ bodyPromise = Resolved(UndefinedValue)
        /\ op = "generateStagingDeployCashBody" =>
              /\ pc \in {"catch", "done"}
              /\ pc = "done" => result = Resolved(UndefinedValue)
        /\ op = "createNewStagingDeployCash" =>
              /\ pc = "create" => created = <<>>
              /\ pc \in {"creating", "done"} => created = <<UndefinedValue>>
              /\ pc # "done" => result = Pending
              /\ pc = "done" =>
                    result \in {Resolved([kind |-> "issue", body |-> UndefinedValue]),
                                Rejected("createError")}

\* The listing failed and createNewStagingDeployCash has resolved with an
\* issue whose body is undefined.
C10_Witness ==
    /\ op = "createNewStagingDeployCash" /\ listTags = ErrResponse /\ pc = "done"
    /\ warnings = <<"listTagsError">>
    /\ created = <<UndefinedValue>>
    /\ result.state = "resolved"

(***************************************************************************)
(* getStagingDeployCashData                                                *)
(***************************************************************************)
\* The text a version pattern matches inside a tag name: the "v" is not
\* part of it.
VersionText(tag) == TagName(FALSE, tag.major, tag.minor, tag.patch, tag.pre)

\* versionRegex on one line: the version-shaped texts in it, left to right.
\* Only the release line and the comparison link hold any.
VersionsIn(line) ==
    CASE line.kind = "release" ->
            IF line.tag.isVersion THEN <<VersionText(line.tag)>> ELSE <<>>
      [] line.kind = "compare" ->
            (IF line.comparisonURL.previousTag.isVersion
             THEN <<VersionText(line.comparisonURL.previousTag)>> ELSE <<>>)
            \o (IF line.comparisonURL.currentTag.isVersion
                THEN <<VersionText(line.comparisonURL.currentTag)>> ELSE <<>>)
      [] OTHER -> <<>>

RECURSIVE Flatten(_)
Flatten(seqs) ==
    IF seqs = <<>> THEN <<>> ELSE Flatten(SubSeq(seqs, 1, Len(seqs) - 1)) \o seqs[Len(seqs)]

\* issue.body.match(versionRegex): every match, in order.
VersionMatches(lines) == Flatten([i \in 1..Len(lines) |-> VersionsIn(lines[i])])

\* compareURLRegex on one line: EXPENSIFY_CASH_URL/compare/ must be followed
\* at once by digits, so a previous tag spelled with "v", or one that is no
\* version, does not match.
CompareURLsIn(line) ==
    IF /\ line.kind = "compare"
       /\ line.comparisonURL.previousTag.isVersion
       /\ ~line.comparisonURL.previousTag.v
       /\ line.comparisonURL.currentTag.isVersion
       /\ ~line.comparisonURL.currentTag.v
    THEN <<line.comparisonURL>>
    ELSE <<>>

CompareURLMatches(lines) == Flatten([i \in 1..Len(lines) |-> CompareURLsIn(lines[i])])

SetMin(S) == CHOOSE x \in S : \A y \in S : x <= y
SetMax(S) == CHOOSE x \in S : \A y \in S : x >= y

NoSection == [isNull |-> TRUE, lines |-> <<>>]
Section(lines) == [isNull |-> FALSE, lines |-> lines]

\* /pull requests:\*\*\r\n((?:.*\r\n)+)\r\n/: group 1 starts after the
\* first header line, holds at least one line and, the repetition being
\* greedy, runs up to the LAST empty line of the body.
PRListSection(lines) ==
    LET headers == {h \in 1..Len(lines) : lines[h].kind = "pullRequestsHeader"}
    IN  IF headers = {} THEN NoSection
        ELSE LET h == SetMin(headers)
                 blanks == {e \in (h + 2)..Len(lines) : lines[e].kind = "blank"}
             IN  IF blanks = {} THEN NoSection
                 ELSE Section(SubSeq(lines, h + 1, SetMax(blanks) - 1))

\* /Deploy Blockers:\*\*\r\n((?:.*\r\n)+)/: group 1 starts after the first
\* header line, holds at least one line and runs to the end of the body.
deployBlockerSection(lines) ==
    LET headers == {h \in 1..Len(lines) : lines[h].kind = "deployBlockersHeader"}
    IN  IF headers = {} THEN NoSection
        ELSE LET h == SetMin(headers)
             IN  IF h = Len(lines) THEN NoSection
                 ELSE Section(SubSeq(lines, h + 1, Len(lines)))

\* checklistItemRegex: "- [ ] " or "- [x] " followed at once by an issue or
\* pull request URL; group 1 is that URL to the end of its line.
IsChecklistItem(line) ==
    /\ line.kind = "item"
    /\ ~ISSUE_OR_PULL_REQUEST_REGEX(line.URL).isNull

\* [...section.matchAll(checklistItemRegex)].map(match => match[1])
ChecklistURLsOf(lines) ==
    LET items == SelectSeq(lines, IsChecklistItem)
    IN  [i \in 1..Len(items) |-> items[i].URL]

DecodeThrew == [threw |-> TRUE]

\* getStagingDeployCashData: any null match, or a body that is no string,
\* throws inside the try and is rethrown as the one "Unable to find
\* StagingDeployCash issue with correct data." error.
getStagingDeployCashData(issue) ==
    IF issue.body.kind # "body" THEN DecodeThrew
    ELSE LET lines == issue.body.lines
             versions == VersionMatches(lines)
             compareURLs == CompareURLMatches(lines)
             PRSection == PRListSection(lines)
             blockerSection == deployBlockerSection(lines)
         IN  IF \/ versions = <<>>
                \/ compareURLs = <<>>
                \/ PRSection.isNull
                \/ blockerSection.isNull
             THEN DecodeThrew
             ELSE [threw |-> FALSE,
                   title |-> issue.title,
                   tag |-> versions[1],
                   comparisonURL |-> compareURLs[1],
                   PRList |-> ChecklistURLsOf(PRSection.lines),
                   deployBlockers |-> ChecklistURLsOf(blockerSection.lines)]

(***************************************************************************)
(* Decode, encode what was decoded, decode again                           *)
(***************************************************************************)
MaxItems == 2         \* most checklist lines in a section of a stored body

Optional(line) == {<<>>, <<line>>}

StoredSections(header, checked) ==
    {<<>>} \cup {<<header>> \o [i \in 1..Len(l) |-> ItemLine(checked, l[i])] :
                    l \in SeqsUpTo(ChecklistURLs, MaxItems)}

NotDecoded == [threw |-> FALSE, title |-> "not decoded"]

InitCodec ==
    /\ op = "decodeEncodeDecode"
    /\ pc = "decode"
    \* The bodies an issue may hold: the layout the encoder writes, with any
    \* of its parts left out and an empty line after it or not.
    /\ \E checked \in BOOLEAN :
       \E r \in Optional(ReleaseLine(ReleaseTag)),
          c \in Optional(CompareLine(getComparisonURL(PreviousTag, semverParse(ReleaseTag)))),
          p \in StoredSections(PullRequestsHeader, checked),
          g \in Optional(BlankLine),
          d \in StoredSections(DeployBlockersHeader, checked),
          t \in Optional(BlankLine) :
            args = [issue |-> [title |-> "checklist", body |-> Body(r \o c \o p \o g \o d \o t)]]
    /\ listTags = Unanswered
    /\ listForRepo = Unanswered
    /\ created = <<>>
    /\ warnings = <<>>
    /\ decoded = <<>>
    /\ inner = Pending
    /\ thenPromise = Pending
    /\ bodyPromise = Pending
    /\ result = [first |-> NotDecoded, second |-> NotDecoded]

\* getStagingDeployCashData on the stored issue.
DecodeStored ==
    /\ op = "decodeEncodeDecode" /\ pc = "decode"
    /\ decoded' = Append(decoded, args.issue)
    /\ result' = [result EXCEPT !.first = getStagingDeployCashData(args.issue)]
    /\ pc' = IF result'.first.threw THEN "done" ELSE "encode"
    /\ UNCHANGED <<op, args, listTags, listForRepo, created, warnings, inner, thenPromise,
                   bodyPromise>>

DecodedArgs(fields) ==
    EncodeArgs(fields.tag, fields.PRList, fields.deployBlockers, NothingChecked)

\* generateStagingDeployCashBody on the decoded fields, the gateway listing
\* tags that give the comparison link the body held.
EncodeDecoded ==
    /\ op = "decodeEncodeDecode" /\ pc = "encode"
    /\ \E data \in BodyTagListings :
          /\ ComparisonPromise(OkResponse(data), result.first.tag, "BUILD")
                = Resolved(result.first.comparisonURL)
          /\ listTags' = OkResponse(data)
          /\ inner' = ComparisonPromise(OkResponse(data), result.first.tag, "BUILD")
    /\ thenPromise' = Then(inner', DecodedArgs(result.first))
    /\ bodyPromise' = Catch(thenPromise')
    /\ warnings' = IF thenPromise'.state = "rejected"
                   THEN Append(warnings, thenPromise'.value.name) ELSE warnings
    /\ pc' = "decodeAgain"
    /\ UNCHANGED <<op, args, listForRepo, created, decoded, result>>

\* getStagingDeployCashData on an issue holding the generated body.
DecodeGenerated ==
    /\ op = "decodeEncodeDecode" /\ pc = "decodeAgain"
    /\ LET issue == [title |-> args.issue.title, body |-> bodyPromise.value]
       IN  /\ decoded' = Append(decoded, issue)
           /\ result' = [result EXCEPT !.second = getStagingDeployCashData(issue)]
    /\ pc' = "done"
    /\ UNCHANGED <<op, args, listTags, listForRepo, created, warnings, inner, thenPromise,
                   bodyPromise>>

NextCodec == DecodeStored \/ EncodeDecoded \/ DecodeGenerated

SpecCodec == InitCodec /\ [][NextCodec]_vars

(***************************************************************************)
(* Claims about the codec                                                  *)
(***************************************************************************)
StoredLines == args.issue.body.lines
HasLineOfKind(kind) == \E i \in 1..Len(StoredLines) : StoredLines[i].kind = kind
FirstDecoded == op = "decodeEncodeDecode" /\ pc # "decode"

\* C3: a body with a release tag, a comparison link and a pull request
\* section but no Deploy Blockers section decodes, to an empty
\* deployBlockers; a body without the Release Version tag fails to decode.
C3_DeployBlockersOptional ==
    FirstDecoded =>
        /\ ( /\ HasLineOfKind("release") /\ HasLineOfKind("compare")
             /\ HasLineOfKind("pullRequestsHeader")
             /\ ~HasLineOfKind("deployBlockersHeader") ) =>
              /\ ~result.first.threw
              /\ result.first.deployBlockers = <<>>
        /\ ~HasLineOfKind("release") => result.first.threw

\* The layout of section 6: the release line, the comparison line, then
\* optionally the pull request header with its checklist lines, then
\* optionally an empty line, the Deploy Blockers header and its lines.
IsItemRun(lines) ==
    \A i \in 1..Len(lines) : lines[i].kind = "item" /\ HasURLShape(lines[i].URL, {"pull", "issues"})

WellFormed(lines) ==
    \E n \in 2..Len(lines), m \in 2..Len(lines) :
        /\ lines[1].kind = "release" /\ lines[1].tag.isVersion
        /\ lines[2].kind = "compare"
        /\ n <= m
        /\ \/ n = 2
           \/ n > 2 /\ lines[3] = PullRequestsHeader /\ IsItemRun(SubSeq(lines, 4, n))
        /\ \/ m = n /\ m = Len(lines)
           \/ /\ m = n + 2 /\ m <= Len(lines)
              /\ lines[n + 1] = BlankLine /\ lines[m] = DeployBlockersHeader
              /\ IsItemRun(SubSeq(lines, m + 1, Len(lines)))

SameFields(a, b) ==
    /\ ~a.threw /\ ~b.threw
    /\ a.tag = b.tag
    /\ a.comparisonURL = b.comparisonURL
    /\ a.PRList = b.PRList
    /\ a.deployBlockers = b.deployBlockers

\* C4: a well-formed body decodes, and encoding what it decoded to and
\* decoding the result gives the same tag, comparison link, PRList and
\* deployBlockers.
C4_RoundTrip ==
    (op = "decodeEncodeDecode" /\ WellFormed(StoredLines)) =>
        /\ pc # "decode" => ~result.first.threw
        /\ pc = "done" => SameFields(result.first, result.second)

(***************************************************************************)
(* getStagingDeployCash                                                    *)
(***************************************************************************)
MaxIssues == 2        \* most open issues the gateway lists under the label

\* The bodies of the listed issues: the encoder's layout with or without
\* its release line and its sections, and an issue without a body.
IssueBodies ==
    {Body(r \o <<CompareLine(getComparisonURL(PreviousTag, semverParse(ReleaseTag)))>> \o p \o d) :
        r \in Optional(ReleaseLine(ReleaseTag)),
        p \in {<<>>, <<PullRequestsHeader, ItemLine(FALSE, PullURL(1))>>},
        d \in {<<>>, <<BlankLine, DeployBlockersHeader, ItemLine(TRUE, IssueURL(2))>>}}
    \cup {UndefinedValue}

ListedIssues == [title : {"checklist"}, body : IssueBodies]

IssueListings == SeqsUpTo(ListedIssues, MaxIssues)

\* The then callback without its second check.
IssuesThenFirstOfMany(data) ==
    IF Len(data) = 0
    THEN [decoded |-> <<>>, promise |-> Rejected("Unable to find StagingDeployCash issue.")]
    ELSE LET fields == getStagingDeployCashData(data[1])
         IN  [decoded |-> <<data[1]>>,
              promise |-> IF fields.threw
                          THEN Rejected("Unable to find StagingDeployCash issue with correct data.")
                          ELSE Resolved(fields)]

\* The then callback of getStagingDeployCash: the issues it hands to
\* getStagingDeployCashData and the promise it leaves behind.
IssuesThen(data) ==
    IF Len(data) = 0
    THEN [decoded |-> <<>>, promise |-> Rejected("Unable to find StagingDeployCash issue.")]
    ELSE IF Len(data) > 1
    THEN [decoded |-> <<>>, promise |-> Rejected("Found more than one StagingDeployCash issue.")]
    ELSE LET fields == getStagingDeployCashData(data[1])
         IN  [decoded |-> <<data[1]>>,
              promise |-> IF fields.threw
                          THEN Rejected("Unable to find StagingDeployCash issue with correct data.")
                          ELSE Resolved(fields)]

InitIssue ==
    /\ op = "getStagingDeployCash"
    /\ pc = "listForRepo"
    /\ args = [labels |-> "StagingDeployCash", state |-> "open"]
    /\ listTags = Unanswered
    /\ listForRepo = Unanswered
    /\ created = <<>>
    /\ warnings = <<>>
    /\ decoded = <<>>
    /\ inner = Pending
    /\ thenPromise = Pending
    /\ bodyPromise = Pending
    /\ result = Pending

\* octokit.issues.listForRepo resolves.
ListForRepoResolves ==
    /\ op = "getStagingDeployCash" /\ pc = "listForRepo"
    /\ \E data \in IssueListings : listForRepo' = OkResponse(data)
    /\ pc' = "then"
    /\ UNCHANGED <<op, args, listTags, created, warnings, decoded, inner, thenPromise,
                   bodyPromise, result>>

\* octokit.issues.listForRepo rejects: there is no catch, the caller gets it.
ListForRepoRejects ==
    /\ op = "getStagingDeployCash" /\ pc = "listForRepo"
    /\ listForRepo' = ErrResponse
    /\ result' = Rejected("listForRepoError")
    /\ pc' = "done"
    /\ UNCHANGED <<op, args, listTags, created, warnings, decoded, inner, thenPromise,
                   bodyPromise>>

\* .then(({data}) => ...)
ListForRepoThen ==
    /\ op = "getStagingDeployCash" /\ pc = "then"
    /\ decoded' = decoded \o IssuesThen(listForRepo.data).decoded
    /\ result' = IssuesThen(listForRepo.data).promise
    /\ pc' = "done"
    /\ UNCHANGED <<op, args, listTags, listForRepo, created, warnings, inner, thenPromise,
                   bodyPromise>>

NextIssue == ListForRepoResolves \/ ListForRepoRejects \/ ListForRepoThen

SpecIssue == InitIssue /\ [][NextIssue]_vars

(***************************************************************************)
(* Claims about getStagingDeployCash                                       *)
(***************************************************************************)
IssuesListed == op = "getStagingDeployCash" /\ pc = "done" /\ listForRepo.ok

\* C7: decoded data comes back only when exactly one open issue is listed.
\* None listed: a not-found failure; two or more: an ambiguous-result
\* failure; in both no issue is decoded and nothing is returned.  Exactly
\* one: that issue, and no other, is decoded, and the outcome is that of
\* decoding it (its fields, or the malformed-checklist failure).
C7_ExactlyOneIssue ==
    IssuesListed =>
        /\ Len(listForRepo.data) = 0 =>
              /\ result = Rejected("Unable to find StagingDeployCash issue.")
              /\ decoded = <<>>
        /\ Len(listForRepo.data) >= 2 =>
              /\ result = Rejected("Found more than one StagingDeployCash issue.")
              /\ decoded = <<>>
        /\ Len(listForRepo.data) = 1 =>
              /\ decoded = <<listForRepo.data[1]>>
              /\ result.state = "resolved" =>
                    /\ ~result.value.threw
                    /\ result.value = getStagingDeployCashData(listForRepo.data[1])
              /\ result.state = "rejected" =>
                    /\ getStagingDeployCashData(listForRepo.data[1]).threw
                    /\ result = Rejected("Unable to find StagingDeployCash issue with correct data.")
        /\ result.state # "pending"
        /\ result.state = "resolved" => Len(listForRepo.data) = 1

\* Two issues were listed, the first of them one that decodes, and the
\* operation failed without decoding either.
C7_Witness ==
    /\ IssuesListed
    /\ Len(listForRepo.data) = 2
    /\ ~getStagingDeployCashData(listForRepo.data[1]).threw
    /\ result.state = "rejected"
    /\ decoded = <<>>
====
